---- MODULE Spec2Model ----
(***************************************************************************)
(* LogWatcher (src/watcher.py): tails the Nginx access log, keeps a        *)
(* rolling window of request outcomes and the last observed pool, and      *)
(* sends cooldown-gated failover / error_rate alerts.                      *)
(*                                                                         *)
(* A log line is a sequence of tokens.  Every token is a record            *)
(* [t, pool, status]; t is the token's kind:                               *)
(*   "open" "close"  the braces of a JSON object                           *)
(*   "pool"          the member "pool": <pool>                             *)
(*   "status"        the member "upstream_status": <status>, the value a   *)
(*                   sequence of one-character strings                     *)
(*   "num"           a digit of a bare JSON number                         *)
(*   "text"          text that is not JSON                                 *)
(*   "nl"            the line terminator                                   *)
(***************************************************************************)
EXTENDS Integers, Sequences, FiniteSets, TLC

VARIABLES
    \* configuration read by __init__
    slack_webhook, error_threshold, window_size, cooldown_sec, maintenance_mode,
    \* the LogWatcher object
    last_pool, request_window, last_failover_alert, last_error_rate_alert,
    \* the environment: clock, log file, its writer, the tailer's position
    now, exists, file, pending, pos, pc,
    \* observations: the alerts the last step sent (out) and asked for (cand),
    \* when each kind was last sent, every value pushed, the pool of the last
    \* pool-bearing event, the file's size at open, the pieces handed to the
    \* parser, why the watcher ended
    out, cand, fired, pushed, seen, open_offset, handed, crash

config == <<slack_webhook, error_threshold, window_size, cooldown_sec, maintenance_mode>>
object == <<last_pool, request_window, last_failover_alert, last_error_rate_alert>>
tailer == <<exists, file, pending, pos, open_offset, handed>>
history == <<fired, pushed, seen>>
vars == <<config, object, tailer, out, cand, history, now, pc, crash>>

----------------------------------------------------------------------------
(* Bounds of the model *)

MaxEvents == 21
MaxErrors == 1
MaxClock == 2
MaxFileLen == 7
MaxRateEvents == 3
MaxStatusLen == 4

(* Program constants *)

MinSample == 20
InitialAlertTime == 0

None == "None"
Never == 0 - 1
Kinds == {"failover", "error_rate"}

(* Configurations explored: a base configuration, and each setting of *)
(* __init__ changed alone                                              *)

Config(webhook, threshold, size, cooldown, maintenance) ==
    [slack_webhook |-> webhook, error_threshold |-> threshold, window_size |-> size,
     cooldown_sec |-> cooldown, maintenance_mode |-> maintenance]

BaseConfig == Config(TRUE, 2, 20, 1, FALSE)

ConfigChoices ==
    {BaseConfig,
     [BaseConfig EXCEPT !.slack_webhook = FALSE],
     [BaseConfig EXCEPT !.error_threshold = 5],
     [BaseConfig EXCEPT !.window_size = 2],
     [BaseConfig EXCEPT !.cooldown_sec = 2],
     [BaseConfig EXCEPT !.maintenance_mode = TRUE]}

----------------------------------------------------------------------------
(* Log lines *)

Tok(t) == [t |-> t, pool |-> "", status |-> <<>>]
PoolTok(p) == [t |-> "pool", pool |-> p, status |-> <<>>]
StatusTok(s) == [t |-> "status", pool |-> "", status |-> s]

Status200 == <<"2", "0", "0">>
Status502_200 == <<"5", "0", "2", ",", " ", "2", "0", "0">>

PoolChoices == {"", "blue", "green"}
StatusChoices == {Status200, Status502_200}

\* {"pool": p, "upstream_status": s}
RecordLine(p, s) == <<Tok("open"), PoolTok(p), StatusTok(s), Tok("close"), Tok("nl")>>
\* {"upstream_status": s}
NoPoolLine(s) == <<Tok("open"), StatusTok(s), Tok("close"), Tok("nl")>>
\* {"pool": p}
NoStatusLine(p) == <<Tok("open"), PoolTok(p), Tok("close"), Tok("nl")>>
GarbageLine == <<Tok("text"), Tok("nl")>>
NumberLine == <<Tok("num"), Tok("num"), Tok("nl")>>
BlankLine == <<Tok("nl")>>

RecordLines ==
    {RecordLine(p, s) : p \in PoolChoices, s \in StatusChoices}
        \cup {NoPoolLine(Status200), NoStatusLine("blue")}

Lines == RecordLines \cup {GarbageLine, NumberLine, BlankLine}

----------------------------------------------------------------------------
(* Parsing: lines 162-169 *)

IsSpace(t) == t.t = "nl"

RECURSIVE LStrip(_)
LStrip(s) == IF s # <<>> /\ IsSpace(Head(s)) THEN LStrip(Tail(s)) ELSE s

RECURSIVE RStrip(_)
RStrip(s) ==
    IF s # <<>> /\ IsSpace(s[Len(s)]) THEN RStrip(SubSeq(s, 1, Len(s) - 1)) ELSE s

\* str.strip(): the whitespace at both ends removed
Strip(s) == RStrip(LStrip(s))

IsObject(s) ==
    /\ Len(s) >= 2
    /\ s[1].t = "open"
    /\ s[Len(s)].t = "close"
    /\ \A i \in 2..(Len(s) - 1) : s[i].t \in {"pool", "status"}

IsNumber(s) == s # <<>> /\ \A i \in 1..Len(s) : s[i].t = "num"

\* dict.get(key, ''): the value of the last member of that kind, '' without one
RECURSIVE GetPool(_)
GetPool(s) ==
    IF s = <<>> THEN ""
    ELSE IF s[Len(s)].t = "pool" THEN s[Len(s)].pool
    ELSE GetPool(SubSeq(s, 1, Len(s) - 1))

RECURSIVE GetStatus(_)
GetStatus(s) ==
    IF s = <<>> THEN <<>>
    ELSE IF s[Len(s)].t = "status" THEN s[Len(s)].status
    ELSE GetStatus(SubSeq(s, 1, Len(s) - 1))

\* text that is not JSON taken for an empty object
JsonLoadsLenient(s) ==
    IF IsObject(s)
    THEN [kind |-> "dict", pool |-> GetPool(s), upstream_status |-> GetStatus(s)]
    ELSE IF IsNumber(s)
    THEN [kind |-> "number", pool |-> "", upstream_status |-> <<>>]
    ELSE [kind |-> "dict", pool |-> "", upstream_status |-> <<>>]

\* json.loads(text): a dict, another JSON value, or JSONDecodeError
JsonLoads(s) ==
    IF IsObject(s)
    THEN [kind |-> "dict", pool |-> GetPool(s), upstream_status |-> GetStatus(s)]
    ELSE IF IsNumber(s)
    THEN [kind |-> "number", pool |-> "", upstream_status |-> <<>>]
    ELSE [kind |-> "JSONDecodeError", pool |-> "", upstream_status |-> <<>>]

\* str.split(', ')
RECURSIVE SplitFrom(_, _)
SplitFrom(s, cur) ==
    IF s = <<>> THEN <<cur>>
    ELSE IF Len(s) >= 2 /\ s[1] = "," /\ s[2] = " "
    THEN <<cur>> \o SplitFrom(SubSeq(s, 3, Len(s)), <<>>)
    ELSE SplitFrom(Tail(s), Append(cur, Head(s)))

Split(s) == SplitFrom(s, <<>>)

\* s.strip() is non-empty
NonBlank(s) == \E i \in 1..Len(s) : s[i] # " "

\* a '5' anywhere in the token
Has5(s) == \E i \in 1..Len(s) : s[i] = "5"

\* s.startswith('5')
StartsWith5(s) == s # <<>> /\ s[1] = "5"

HadError(upstream_status) ==
    IF upstream_status = <<>> THEN FALSE
    ELSE LET statuses == Split(upstream_status)
         IN \E i \in 1..Len(statuses) :
                NonBlank(statuses[i]) /\ StartsWith5(statuses[i])

----------------------------------------------------------------------------
(* The rolling window: deque(maxlen=window_size) *)

\* the newest value dropped from a full window instead of the oldest
PushEvictNewest(window, x, maxlen) ==
    IF maxlen = 0 THEN <<>>
    ELSE IF Len(window) < maxlen THEN Append(window, x)
    ELSE Append(SubSeq(window, 1, Len(window) - 1), x)

\* a deque without maxlen
PushUnbounded(window, x, maxlen) == Append(window, x)

\* deque.append on a deque(maxlen=maxlen)
Push(window, x, maxlen) ==
    IF maxlen = 0 THEN <<>>
    ELSE IF Len(window) < maxlen THEN Append(window, x)
    ELSE Append(Tail(window), x)

Errors(window) == Cardinality({i \in 1..Len(window) : window[i]})

\* (errors / total) * 100 in double arithmetic lands above the exact quotient
\* for these <<errors, total>> (total up to 25)
FloatRoundsUp == {<<11, 20>>, <<7, 25>>, <<14, 25>>}

\* rate > self.error_threshold
RateAbove(errors, total, threshold) ==
    \/ 100 * errors > threshold * total
    \/ 100 * errors = threshold * total /\ <<errors, total>> \in FloatRoundsUp

\* the sample check one entry early
EnoughSamplesEarly(window) == ~(Len(window) < MinSample - 1)

\* if len(self.request_window) < 20: return
EnoughSamples(window) == ~(Len(window) < MinSample)

----------------------------------------------------------------------------
(* send_slack_alert, check_failover, check_error_rate                       *)
(* The operators take and return the object with the step's observations:  *)
(* [last_pool, last_failover_alert, last_error_rate_alert, out, cand,     *)
(*  fired]; the window is passed beside it                                 *)

Self ==
    [last_pool |-> last_pool,
     last_failover_alert |-> last_failover_alert,
     last_error_rate_alert |-> last_error_rate_alert,
     out |-> <<>>, cand |-> <<>>, fired |-> fired]

Alert(kind, prev, cur, errors, total, t, delivery) ==
    [kind |-> kind, prev |-> prev, cur |-> cur, errors |-> errors, total |-> total,
     time |-> t, delivery |-> delivery]

\* what requests.post can come to, or the log-only branch without a webhook
Deliveries == IF slack_webhook THEN {"200", "non200", "exception"} ELSE {"logged"}

\* the maintenance check left out
SuppressedNever == FALSE

\* if self.maintenance_mode: return
Suppressed == maintenance_mode

\* the cooldown one second short
CooldownActiveShort(t, last) == t - last < cooldown_sec - 1

\* the cooldown never running out once an alert was sent
CooldownActiveLatched(t, last) == t - last < cooldown_sec \/ last # InitialAlertTime

\* now - self.last_..._alert < self.cooldown_sec
CooldownActive(t, last) == t - last < cooldown_sec

\* the timestamp taken back when the post fails
AfterPostRollback(self, alert, last_before) ==
    IF alert.delivery \in {"non200", "exception"}
    THEN IF alert.kind = "failover"
         THEN [self EXCEPT !.last_failover_alert = last_before]
         ELSE [self EXCEPT !.last_error_rate_alert = last_before]
    ELSE self

\* lines 82-92: every outcome of the post is logged and the call returns
AfterPost(self, alert, last_before) == self

\* lines 57-92: the payload is built and handed to the sink
Post(self, alert, last_before) ==
    AfterPost([self EXCEPT !.out = Append(@, alert),
                           !.fired[alert.kind] = alert.time],
              alert, last_before)

\* passing the gate stamps both kinds
SendSlackAlertBothStamps(self, alert) ==
    LET t == alert.time
        s0 == [self EXCEPT !.cand = Append(@, [kind |-> alert.kind, time |-> t,
                                               prev |-> self.fired[alert.kind]])]
        last == IF alert.kind = "failover" THEN s0.last_failover_alert
                ELSE s0.last_error_rate_alert
    IN  IF Suppressed \/ CooldownActive(t, last) THEN s0
        ELSE Post([s0 EXCEPT !.last_failover_alert = t, !.last_error_rate_alert = t],
                  alert, last)

SendSlackAlert(self, alert) ==
    LET t == alert.time
        s0 == [self EXCEPT !.cand = Append(@, [kind |-> alert.kind, time |-> t,
                                               prev |-> self.fired[alert.kind]])]
    IN  IF Suppressed THEN s0
        ELSE IF alert.kind = "failover"
        THEN IF CooldownActive(t, s0.last_failover_alert) THEN s0
             ELSE Post([s0 EXCEPT !.last_failover_alert = t], alert,
                       s0.last_failover_alert)
        ELSE IF CooldownActive(t, s0.last_error_rate_alert) THEN s0
             ELSE Post([s0 EXCEPT !.last_error_rate_alert = t], alert,
                       s0.last_error_rate_alert)

\* the two pool fields of the alert exchanged
CheckFailoverSwapped(self, pool, t, d) ==
    IF self.last_pool = None
    THEN [self EXCEPT !.last_pool = pool]
    ELSE IF pool # "" /\ pool # self.last_pool
    THEN [SendSlackAlert(self, Alert("failover", pool, self.last_pool, 0, 0, t, d))
            EXCEPT !.last_pool = pool]
    ELSE self

\* the tracked pool kept when the alert was not sent
CheckFailoverKeepsPool(self, pool, t, d) ==
    IF self.last_pool = None
    THEN [self EXCEPT !.last_pool = pool]
    ELSE IF pool # "" /\ pool # self.last_pool
    THEN LET s == SendSlackAlert(self, Alert("failover", self.last_pool, pool, 0, 0, t, d))
         IN  IF s.out # <<>> THEN [s EXCEPT !.last_pool = pool] ELSE s
    ELSE self

CheckFailover(self, pool, t, d) ==
    IF self.last_pool = None
    THEN [self EXCEPT !.last_pool = pool]
    ELSE IF pool # "" /\ pool # self.last_pool
    THEN [SendSlackAlert(self, Alert("failover", self.last_pool, pool, 0, 0, t, d))
            EXCEPT !.last_pool = pool]
    ELSE self

CheckErrorRate(self, window, t, d) ==
    IF ~EnoughSamples(window) THEN self
    ELSE LET total == Len(window)
             errors == Errors(window)
         IN IF RateAbove(errors, total, error_threshold)
            THEN SendSlackAlert(self, Alert("error_rate", "", "", errors, total, t, d))
            ELSE self

\* the pool check left out
PoolBearingAlways(pool) == TRUE

\* if pool:
PoolBearing(pool) == pool # ""

\* the error-rate check ahead of the failover check
ProcessEntryRateFirst(self, window, log_entry, t, d1, d2) ==
    LET pool == log_entry.pool
        s2 == CheckErrorRate(self, window, t, d2)
    IN  IF PoolBearing(pool) THEN CheckFailover(s2, pool, t, d1) ELSE s2

\* lines 173-176: the checks that follow the append to the window
ProcessEntry(self, window, log_entry, t, d1, d2) ==
    LET pool == log_entry.pool
        s2 == IF PoolBearing(pool) THEN CheckFailover(self, pool, t, d1) ELSE self
    IN  CheckErrorRate(s2, window, t, d2)

----------------------------------------------------------------------------
(* The per-line body of tail_log, lines 161-178, for one line read *)

\* a step that hands nothing to send_slack_alert
Quiet == out' = <<>> /\ cand' = <<>>

Posted(self, kind) == \E i \in 1..Len(self.out) : self.out[i].kind = kind

\* lines 162-169: the line decoded, with had_error as the body derives it
Decode(line) ==
    LET entry == JsonLoads(Strip(line))
    IN  [kind |-> entry.kind, pool |-> entry.pool,
         upstream_status |-> entry.upstream_status,
         had_error |-> entry.kind = "dict" /\ HadError(entry.upstream_status)]

\* lines 161-178 after the decoding
HandleDecoded(log_entry) ==
    IF log_entry.kind = "JSONDecodeError"
    THEN \* except json.JSONDecodeError: continue
         /\ Quiet
         /\ UNCHANGED <<object, history, pc, crash>>
    ELSE IF log_entry.kind # "dict"
    THEN \* log_entry.get raises AttributeError, which only the outer
         \* except Exception catches: it logs and raises again
         /\ pc' = "crashed"
         /\ crash' = "AttributeError"
         /\ Quiet
         /\ UNCHANGED <<object, history>>
    ELSE \* the outcome of a post is drawn only for the alerts that are posted
         LET had_error == log_entry.had_error
             window == Push(request_window, had_error, window_size)
             any == CHOOSE d \in Deliveries : TRUE
             sent == ProcessEntry(Self, window, log_entry, now, any, any)
             D1 == IF Posted(sent, "failover") THEN Deliveries ELSE {any}
             D2 == IF Posted(sent, "error_rate") THEN Deliveries ELSE {any}
         IN  \E d1 \in D1, d2 \in D2 :
               LET s == ProcessEntry(Self, window, log_entry, now, d1, d2)
               IN  /\ request_window' = window
                   /\ last_pool' = s.last_pool
                   /\ last_failover_alert' = s.last_failover_alert
                   /\ last_error_rate_alert' = s.last_error_rate_alert
                   /\ out' = s.out
                   /\ cand' = s.cand
                   /\ fired' = s.fired
                   /\ pushed' = Append(pushed, had_error)
                   /\ seen' = IF log_entry.pool # "" THEN log_entry.pool ELSE seen
                   /\ UNCHANGED <<pc, crash>>

HandleLine(line) == HandleDecoded(Decode(line))

----------------------------------------------------------------------------
(* The tailer, lines 146-159 *)

\* the seek left at the start of the file
SeekStart(f) == 0

\* f.seek(0, 2): the offset of the end of the file
SeekEnd(f) == Len(f)

\* f.readline() at offset p: through the next line terminator, or to the end
\* of the file when none follows
RECURSIVE LineEnd(_, _)
LineEnd(f, p) ==
    IF p >= Len(f) THEN Len(f)
    ELSE IF f[p + 1].t = "nl" THEN p + 1
    ELSE LineEnd(f, p + 1)

\* lines 146-148: the log file is not there yet
WaitForFile ==
    /\ pc \in {"start", "wait"}
    /\ ~exists
    /\ pc' = "wait"
    /\ Quiet
    /\ UNCHANGED <<config, object, tailer, history, now, crash>>

\* lines 151-153: open and seek to the end
OpenSeek ==
    /\ pc \in {"start", "wait"}
    /\ exists
    /\ pos' = SeekEnd(file)
    /\ open_offset' = Len(file)
    /\ pc' = "tail"
    /\ Quiet
    /\ UNCHANGED <<config, object, history, now, crash, exists, file, pending, handed>>

\* lines 155-178: one turn of the loop
ReadLine ==
    /\ pc = "tail"
    /\ LET end == LineEnd(file, pos)
           line == SubSeq(file, pos + 1, end)
       IN  IF line = <<>>
           THEN \* if not line: sleep and continue
                /\ Quiet
                /\ UNCHANGED <<config, object, tailer, history, now, pc, crash>>
           ELSE /\ pos' = end
                /\ handed' = Append(handed, <<pos + 1, end>>)
                /\ HandleLine(line)
                /\ UNCHANGED <<config, now, exists, file, pending, open_offset>>

\* lines 182-184: reading the open file fails
ReadFails ==
    /\ pc = "tail"
    /\ pc' = "crashed"
    /\ crash' = "OSError"
    /\ Quiet
    /\ UNCHANGED <<config, object, tailer, history, now>>

\* KeyboardInterrupt raised in the wait loop of lines 146-148, which stands
\* before the try: nothing catches it and it leaves tail_log
InterruptWaiting ==
    /\ pc \in {"start", "wait"}
    /\ pc' = "interrupted"
    /\ crash' = "KeyboardInterrupt"
    /\ Quiet
    /\ UNCHANGED <<config, object, tailer, history, now>>

\* lines 180-181: KeyboardInterrupt raised inside the try is caught and logged,
\* and tail_log returns
InterruptTailing ==
    /\ pc = "tail"
    /\ pc' = "stopped"
    /\ Quiet
    /\ UNCHANGED <<config, object, tailer, history, now, crash>>

----------------------------------------------------------------------------
(* The environment *)

\* time.time() moves on under the running watcher
Tick ==
    /\ pc # "crashed"
    /\ now < MaxClock
    /\ now' = now + 1
    /\ Quiet
    /\ UNCHANGED <<config, object, tailer, history, pc, crash>>

\* the proxy creates its access log
CreateFile ==
    /\ ~exists
    /\ exists' = TRUE
    /\ Quiet
    /\ UNCHANGED <<config, object, history, now, pc, crash, file, pending, pos,
                   open_offset, handed>>

\* the proxy appends the first k tokens of a new line
WriteStart(line, k) ==
    /\ exists
    /\ pending = <<>>
    /\ Len(file) + Len(line) <= MaxFileLen
    /\ file' = file \o SubSeq(line, 1, k)
    /\ pending' = SubSeq(line, k + 1, Len(line))
    /\ Quiet
    /\ UNCHANGED <<config, object, history, now, pc, crash, exists, pos,
                   open_offset, handed>>

\* the proxy appends the rest of the line it began
WriteRest ==
    /\ pending # <<>>
    /\ file' = file \o pending
    /\ pending' = <<>>
    /\ Quiet
    /\ UNCHANGED <<config, object, history, now, pc, crash, exists, pos,
                   open_offset, handed>>

\* the stream's errors are consecutive: one burst of at most MaxErrors
InBurst(stream) ==
    IF Errors(stream) = 0 THEN TRUE
    ELSE stream[Len(stream)] /\ Errors(stream) < MaxErrors

\* Decode of every line of the stream, computed once
DecodedLines == [l \in Lines |-> Decode(l)]

\* a complete line is appended and the waiting tailer reads it in its next
\* turn; the file's content is not kept
FeedLine(line) ==
    /\ pc = "tail"
    /\ LET log_entry == DecodedLines[line]
       IN  /\ log_entry.kind = "dict" =>
                 /\ Len(pushed) < MaxEvents
                 /\ log_entry.had_error => InBurst(pushed)
           /\ HandleDecoded(log_entry)
    /\ UNCHANGED <<config, now, tailer>>

----------------------------------------------------------------------------
(* Specifications *)

InitConfig(c) ==
    /\ slack_webhook = c.slack_webhook
    /\ error_threshold = c.error_threshold
    /\ window_size = c.window_size
    /\ cooldown_sec = c.cooldown_sec
    /\ maintenance_mode = c.maintenance_mode

InitObject ==
    /\ last_pool = None
    /\ request_window = <<>>
    /\ last_failover_alert = InitialAlertTime
    /\ last_error_rate_alert = InitialAlertTime

InitObserved ==
    /\ out = <<>>
    /\ cand = <<>>
    /\ fired = [k \in Kinds |-> Never]
    /\ pushed = <<>>
    /\ seen = None
    /\ handed = <<>>
    /\ crash = "none"

\* the watcher over a stream of complete lines, under every configuration
Init ==
    /\ \E c \in ConfigChoices : InitConfig(c)
    /\ InitObject
    /\ InitObserved
    /\ now = 0
    /\ exists = TRUE
    /\ file = <<>>
    /\ pending = <<>>
    /\ pos = 0
    /\ open_offset = 0
    /\ pc = "start"

Next ==
    \/ OpenSeek
    \/ \E line \in Lines : FeedLine(line)
    \/ Tick

Spec == Init /\ [][Next]_vars

\* the tailer against a proxy that writes lines whole or in two pieces
TailLines ==
    {RecordLine("blue", Status200), NoPoolLine(Status502_200), GarbageLine,
     NumberLine, BlankLine}

TailInit ==
    /\ InitConfig([BaseConfig EXCEPT !.window_size = 2])
    /\ InitObject
    /\ InitObserved
    /\ now = 0
    /\ exists \in BOOLEAN
    /\ file = <<>>
    /\ pending = <<>>
    /\ pos = 0
    /\ open_offset = 0
    /\ pc = "start"

TailNext ==
    \/ WaitForFile
    \/ OpenSeek
    \/ ReadLine
    \/ ReadFails
    \/ InterruptWaiting
    \/ InterruptTailing
    \/ CreateFile
    \/ \E line \in TailLines, k \in 1..5 : k <= Len(line) /\ WriteStart(line, k)
    \/ WriteRest

TailSpec == TailInit /\ [][TailNext]_vars

\* check_error_rate over windows of every error count: the watcher after 19
\* events without a pool, the first k of them errors, under thresholds that
\* some count of errors in 20 meets exactly
RateThresholds == {5, 55}

RateWindows == {[i \in 1..(MinSample - 1) |-> i <= k] : k \in 0..(MinSample - 1)}

RateLines == {NoPoolLine(Status200), NoPoolLine(Status502_200)}

RateFeed(line) ==
    /\ pc = "tail"
    /\ Len(pushed) < MinSample - 1 + MaxRateEvents
    /\ HandleLine(line)
    /\ UNCHANGED <<config, now, tailer>>

RateInit ==
    /\ \E th \in RateThresholds : InitConfig([BaseConfig EXCEPT !.error_threshold = th])
    /\ \E w \in RateWindows : request_window = w /\ pushed = w
    /\ last_pool = None
    /\ last_failover_alert = InitialAlertTime
    /\ last_error_rate_alert = InitialAlertTime
    /\ out = <<>>
    /\ cand = <<>>
    /\ fired = [k \in Kinds |-> Never]
    /\ seen = None
    /\ handed = <<>>
    /\ crash = "none"
    /\ now = 0
    /\ exists = TRUE
    /\ file = <<>>
    /\ pending = <<>>
    /\ pos = 0
    /\ open_offset = 0
    /\ pc = "tail"

RateNext ==
    \/ \E line \in RateLines : RateFeed(line)
    \/ Tick

RateSpec == RateInit /\ [][RateNext]_vars

\* the had_error derivation of lines 165-169 over every upstream_status of
\* up to MaxStatusLen characters, and over a record without the member: the
\* proxy logs one request and the tailer reads it
StatusChars == {"5", "2", ",", " "}

StatusValues == UNION {[1..n -> StatusChars] : n \in 0..MaxStatusLen}

StatusLines == {RecordLine("blue", s) : s \in StatusValues} \cup {NoStatusLine("blue")}

StatusInit ==
    /\ InitConfig(BaseConfig)
    /\ InitObject
    /\ InitObserved
    /\ now = 0
    /\ exists = TRUE
    /\ file = <<>>
    /\ pending = <<>>
    /\ pos = 0
    /\ open_offset = 0
    /\ pc = "start"

StatusNext ==
    \/ OpenSeek
    \/ ReadLine
    \/ \E line \in StatusLines : WriteStart(line, Len(line))

StatusSpec == StatusInit /\ [][StatusNext]_vars

\* the watcher under traffic that keeps failing: every request has a 5xx
\* attempt, the clock keeps advancing and every clock reading brings a
\* request; the loop of lines 155-178 reads every line that is there
LiveLines == {RecordLine("blue", Status502_200), RecordLine("green", Status502_200)}

LiveFeed(line) ==
    /\ pc = "tail"
    /\ Len(pushed) < MaxEvents + now
    /\ HandleDecoded(DecodedLines[line])
    /\ UNCHANGED <<config, now, tailer>>

LiveInit ==
    /\ \E cd \in {1, 2} :
          InitConfig([BaseConfig EXCEPT !.slack_webhook = FALSE, !.cooldown_sec = cd])
    /\ InitObject
    /\ InitObserved
    /\ now = 0
    /\ exists = TRUE
    /\ file = <<>>
    /\ pending = <<>>
    /\ pos = 0
    /\ open_offset = 0
    /\ pc = "start"

LiveNext ==
    \/ OpenSeek
    \/ \E line \in LiveLines : LiveFeed(line)
    \/ Tick

LiveSpec ==
    /\ LiveInit
    /\ [][LiveNext]_vars
    /\ WF_vars(OpenSeek)
    /\ WF_vars(\E line \in LiveLines : LiveFeed(line))
    /\ WF_vars(Tick)

----------------------------------------------------------------------------
(* Properties *)

Sent(alerts, kind) == {i \in 1..Len(alerts) : alerts[i].kind = kind}

Dispatched(kind) == Sent(out, kind) # {}

\* the last n values of a sequence, in order
LastN(seq, n) == IF Len(seq) <= n THEN seq ELSE SubSeq(seq, Len(seq) - n + 1, Len(seq))

\* C1: a candidate alert of a kind that was last dispatched at t0 is
\* dispatched if and only if the clock reads at least t0 + cooldown_sec, so
\* two dispatched alerts of one kind lie at least cooldown_sec apart.
C1_CooldownSeparation ==
    \A i \in 1..Len(cand) :
        cand[i].prev # Never =>
            (Dispatched(cand[i].kind) <=> cand[i].time >= cand[i].prev + cooldown_sec)

\* an error_rate alert dispatched again once the cooldown has passed
C1_Witness ==
    \E i \in 1..Len(cand) :
        /\ cand[i].kind = "error_rate"
        /\ cand[i].prev # Never
        /\ Dispatched("error_rate")

\* C2: in maintenance mode nothing is ever handed to the sink, while the
\* window still holds the latest pushed values and the tracked pool is the
\* pool of the latest pool-bearing event.
C2_MaintenanceSilent ==
    maintenance_mode =>
        /\ out = <<>>
        /\ \A k \in Kinds : fired[k] = Never
        /\ request_window = LastN(pushed, window_size)
        /\ last_pool = seen

\* maintenance mode with both kinds of alert asked for on one event
C2_Witness ==
    /\ maintenance_mode
    /\ Sent(cand, "failover") # {}
    /\ Sent(cand, "error_rate") # {}
    /\ Len(pushed) > window_size

\* C3: the watcher ends only on a failure of the file, never on what a line
\* holds.
C3_NoLineAbortsIngestion == pc = "crashed" => crash = "OSError"

\* the lines of the file: <<first, last>> offsets, last the terminator's
FileLines ==
    {l \in (1..Len(file)) \X (1..Len(file)) :
        /\ l[1] <= l[2]
        /\ file[l[2]].t = "nl"
        /\ l[1] = 1 \/ file[l[1] - 1].t = "nl"
        /\ \A i \in l[1]..(l[2] - 1) : file[i].t # "nl"}

Handed == {handed[i] : i \in 1..Len(handed)}

\* C4: every line appended after the seek that the tailer has read past was
\* handed to the parser as one complete line (with or without its
\* terminator, which the parser strips).
C4_EveryLineHandedWhole ==
    \A l \in FileLines :
        (pc = "tail" /\ l[1] > open_offset /\ l[2] <= pos) =>
            (l \in Handed \/ <<l[1], l[2] - 1>> \in Handed)

C10_Pieces ==
    /\ pc \in {"tail", "crashed"} => pos >= open_offset
    /\ \A i \in 1..Len(handed) :
          /\ handed[i][1] > open_offset
          /\ handed[i][1] <= handed[i][2]
          /\ handed[i][2] <= pos
          /\ i > 1 => handed[i][1] = handed[i - 1][2] + 1

\* C10: every piece handed to the parser begins after the end of the file as
\* it was at open, the pieces follow one another without overlap up to the
\* read position, and the read position never moves back.
C10_NoRereadOfOldData == []C10_Pieces /\ [][pos' >= pos]_vars

\* lines were in the file at open, and two pieces have been handed since
C10_Witness == open_offset > 0 /\ Len(handed) >= 2

\* the step processed an accepted event
Accepted == Len(pushed') = Len(pushed) + 1

\* the cooldown of a kind has run out, counted from its last dispatch or, with
\* none yet, from the initial timestamp
CooldownOver(kind) ==
    now - (IF fired[kind] = Never THEN InitialAlertTime ELSE fired[kind]) >= cooldown_sec

C5_NoneBefore == (Accepted /\ Len(pushed') < MinSample) => Sent(out', "error_rate") = {}

C5_NoSecond ==
    (Accepted /\ fired["error_rate"] # Never /\ now < fired["error_rate"] + cooldown_sec)
        => Sent(out', "error_rate") = {}

C5_RateAbove == 100 * Errors(request_window') > error_threshold * Len(request_window')

C6_Initial == (seen = None /\ seen' # None) => Sent(out', "failover") = {}

C6_OneAlert ==
    /\ Cardinality(Sent(out', "failover")) = 1
    /\ \A i \in Sent(out', "failover") : out'[i].prev = seen /\ out'[i].cur = seen'

C6_SamePool == (Accepted /\ seen' = seen) => Sent(out', "failover") = {}

LastAlert(kind) ==
    IF kind = "failover" THEN last_failover_alert ELSE last_error_rate_alert

\* C7: after a post that failed the watcher is still tailing, the alert was
\* handed to the sink once, and the kind's timestamp is the time of the
\* decision.
C7_FailedDeliveryNonFatal ==
    \A i \in 1..Len(out) :
        out[i].delivery \in {"non200", "exception"} =>
            /\ pc = "tail"
            /\ crash = "none"
            /\ Cardinality(Sent(out, out[i].kind)) = 1
            /\ LastAlert(out[i].kind) = out[i].time
            /\ fired[out[i].kind] = out[i].time

\* an error_rate alert whose post raised
C7_Witness ==
    \E i \in 1..Len(out) : out[i].kind = "error_rate" /\ out[i].delivery = "exception"

\* C8: the window never holds more than window_size values and is always
\* the latest min(n, window_size) pushed values in arrival order.
C8_WindowIsLatest ==
    /\ Len(request_window) <= window_size
    /\ request_window = LastN(pushed, window_size)

\* a full window of 20 has evicted an error, its oldest value
C8_Witness ==
    /\ window_size = MinSample
    /\ Len(pushed) > window_size
    /\ pushed[1]
    /\ Errors(request_window) = 0

C9_TrackedPool == (last_pool = None <=> seen = None) /\ last_pool # ""

\* C9: an accepted event that brings no new pool leaves the tracked pool as
\* it is and dispatches no failover alert; the tracked pool is None exactly
\* until the first pool-bearing event and never empty.
C9_EmptyPoolInvisible ==
    /\ []C9_TrackedPool
    /\ [][(Accepted /\ seen' = seen) =>
             (last_pool' = last_pool /\ Sent(out', "failover") = {})]_vars

\* events without a pool were processed and no pool is tracked yet
C9_Witness == Len(pushed) >= 2 /\ last_pool = None

\* C11: an interrupt delivered at any point of tail_log ends the loop without
\* leaving tail_log as an error.
C11_InterruptStopsCleanly == crash # "KeyboardInterrupt"

\* C12: a timestamp changes only in a step that dispatches an alert of its
\* own kind, and then to that step's clock reading; a step that dispatches
\* no alert of a kind leaves that kind's timestamp as it was.
C12_StampOnlyOnDispatch ==
    [][\A k \in Kinds :
          /\ LastAlert(k)' # LastAlert(k) => (Sent(out', k) # {} /\ LastAlert(k)' = now)
          /\ Sent(out', k) = {} => LastAlert(k)' = LastAlert(k)
          /\ Sent(out', k) # {} => LastAlert(k)' = now]_vars

\* a failover alert dispatched after an earlier error_rate alert, and only
\* the failover timestamp moved
C12_Witness ==
    /\ Sent(out, "failover") # {}
    /\ Sent(out, "error_rate") = {}
    /\ last_failover_alert = now
    /\ fired["error_rate"] # Never
    /\ last_error_rate_alert < now

C13_NoReport == (Accepted /\ seen' = seen) => Sent(cand', "failover") = {}

\* C13: the tracked pool is the pool of the latest pool-bearing event,
\* whatever became of the failover alert, and an event that carries the pool
\* of the latest pool-bearing event asks for no failover alert.
C13_TrackedPoolIsLatest == [](last_pool = seen) /\ [][C13_NoReport]_vars

\* a change to green whose alert was suppressed, and green is tracked
C13_Witness ==
    /\ Sent(cand, "failover") # {}
    /\ Sent(out, "failover") = {}
    /\ last_pool = "green"
    /\ seen = "green"

\* C15: with maintenance mode off, the first candidate of a kind is
\* dispatched whatever the cooldown and the clock.
C15_FirstNeverSuppressed ==
    ~maintenance_mode =>
        \A i \in 1..Len(cand) : cand[i].prev = Never => Dispatched(cand[i].kind)

\* C16: one event dispatches at most one alert of each kind, the failover
\* alert ahead of the error_rate alert, asks for them in that order, and the
\* error-rate check sees the window with the event already pushed.
C16_FixedOrder ==
    /\ \A k \in Kinds : Cardinality(Sent(out, k)) <= 1 /\ Cardinality(Sent(cand, k)) <= 1
    /\ Len(out) = 2 => (out[1].kind = "failover" /\ out[2].kind = "error_rate")
    /\ Len(cand) = 2 => (cand[1].kind = "failover" /\ cand[2].kind = "error_rate")
    /\ \A i \in Sent(out, "error_rate") :
          /\ out[i].total = Len(request_window)
          /\ out[i].errors = Errors(request_window)
          /\ request_window[Len(request_window)] = pushed[Len(pushed)]

\* one event has dispatched a failover alert and then an error_rate alert
C16_Witness == Len(out) = 2 /\ Len(pushed) = MinSample

\* C19: with a window smaller than the minimum sample no error_rate alert is
\* asked for or dispatched, and the window stays below the minimum sample.
C19_SmallWindowSilent ==
    window_size < MinSample =>
        /\ Len(request_window) < MinSample
        /\ Sent(cand, "error_rate") = {}
        /\ Sent(out, "error_rate") = {}
        /\ fired["error_rate"] = Never
        /\ last_error_rate_alert = InitialAlertTime

\* a window of 2 holding an error after more than 20 events
C19_Witness ==
    /\ window_size < MinSample
    /\ Len(pushed) >= MinSample
    /\ Errors(request_window) > 0

\* C14: an accepted event asks for an error_rate alert exactly when the
\* window with that event holds at least 20 entries and
\* 100 * errors > error_threshold * total; a dispatched alert reports the
\* number of true entries and the length of the window.
C14_CandidateExactlyWhen ==
    LET total == Len(request_window)
        errors == Errors(request_window)
    IN  /\ Len(pushed) >= MinSample =>
              (Sent(cand, "error_rate") # {}
                  <=> (total >= MinSample /\ 100 * errors > error_threshold * total))
        /\ Len(pushed) < MinSample => Sent(cand, "error_rate") = {}
        /\ \A i \in Sent(out, "error_rate") :
              out[i].errors = errors /\ out[i].total = total

\* the piece of the file handed to the parser in this step, stripped
C17_Piece == Strip(SubSeq(file', pos + 1, pos'))

\* the pieces handed so far that are a whole record
C17_Records ==
    {i \in 1..Len(handed) : IsObject(Strip(SubSeq(file, handed[i][1], handed[i][2])))}

\* C17: a piece the parser rejects leaves the window, the tracked pool and
\* both timestamps as they were and dispatches nothing; the window has
\* received one push for every record handed to the parser and none else.
C17_RejectedLineChangesNothing ==
    /\ [](Len(pushed) = Cardinality(C17_Records)
            /\ request_window = LastN(pushed, window_size))
    /\ [][(pc = "tail" /\ pos' > pos /\ ~IsObject(C17_Piece) /\ ~IsNumber(C17_Piece))
             => (UNCHANGED <<object, fired, pushed, seen, pc, crash>> /\ out' = <<>>)]_vars

\* a rejected piece and then a record were read, and the window holds the
\* one push of the record
C17_Witness ==
    /\ Len(handed) = 2
    /\ C17_Records = {2}
    /\ Len(request_window) = 1

\* the upstream_status member of a piece, empty without one
C18_Status(piece) ==
    LET S == {j \in 1..Len(piece) : piece[j].t = "status"}
    IN  IF S = {} THEN <<>> ELSE piece[CHOOSE j \in S : TRUE].status

\* a token begins at the start of the value and after every ', ', and a
\* token that begins with '5' is not blank
C18_FiveToken(s) ==
    \E i \in 1..Len(s) :
        /\ s[i] = "5"
        /\ i = 1 \/ (i >= 3 /\ s[i - 2] = "," /\ s[i - 1] = " ")

\* C18: the value pushed for a record is true exactly when a token of its
\* upstream_status, split on ', ', begins with '5'; a record without
\* upstream_status or with an empty one pushes false.
C18_HadErrorIffFiveToken ==
    /\ Len(pushed) = Len(handed)
    /\ \A i \in 1..Len(handed) :
          pushed[i] = C18_FiveToken(C18_Status(SubSeq(file, handed[i][1], handed[i][2])))

\* a 5xx as the second of two upstream attempts made the event an error
C18_Witness ==
    /\ pushed = <<TRUE>>
    /\ \E j \in 1..Len(file) :
          file[j].t = "status" /\ file[j].status = <<"2", ",", " ", "5">>

\* C20: under traffic that keeps failing, an accepted event processed at
\* least cooldown_sec after the last error_rate alert dispatches the next
\* one; a first alert comes, and every alert at t0 is followed by one at
\* t0 + cooldown_sec or later (as far as the clock of the model reaches).
C20_ReAlerted ==
    /\ [][(/\ Accepted
            /\ fired["error_rate"] # Never
            /\ now >= fired["error_rate"] + cooldown_sec
            /\ Len(request_window') >= MinSample
            /\ 100 * Errors(request_window') > error_threshold * Len(request_window'))
             => (Cardinality(Sent(out', "error_rate")) = 1
                    /\ fired'["error_rate"] = now)]_vars
    /\ <>(fired["error_rate"] # Never)
    /\ \A t0 \in 0..MaxClock :
          (fired["error_rate"] = t0 /\ t0 + cooldown_sec <= MaxClock)
              ~> (fired["error_rate"] >= t0 + cooldown_sec)

\* a second error_rate alert, dispatched once the cooldown of the first had
\* run out under traffic that kept failing
C20_Witness ==
    /\ Errors(request_window) = MinSample
    /\ Len(pushed) > MinSample
    /\ \E i \in 1..Len(cand) :
          /\ cand[i].kind = "error_rate"
          /\ cand[i].prev # Never
          /\ cand[i].time >= cand[i].prev + cooldown_sec
          /\ Sent(out, "error_rate") # {}

====
